---- MODULE Spec2Model ----
(***************************************************************************)
(* The breakpoint engine of src/src/debugger/breakpoint.cpp: the two       *)
(* keyspaces of per-line breakpoint tables (files_, memorys_), the shared  *)
(* line-indexed counter array (fast_table_), the per-hit protocol of       *)
(* breakpoint::has and the function cache of breakpoint::get_function.     *)
(*                                                                         *)
(* Text is a sequence of one-character strings, so that the concatenations *)
(* and the pattern scan of the code are computed, not assumed.             *)
(***************************************************************************)
EXTENDS Integers, Sequences, FiniteSets, TLC

\* ------------------------------------------------------------------ bounds
\* A hit counter is driven up to MaxHit where the per-hit protocol is checked
\* and up to MaxStoreHit where the store is.
MaxHit == 2
MaxStoreHit == 1
\* The store holds at most MaxBps breakpoints at a time.
MaxBps == 2
\* Longest logMessage drawn where the interpolation is checked.
MaxLogLen == 5

\* ------------------------------------------------------------------- texts
Digit(d) ==
  CASE d = 0 -> "0" [] d = 1 -> "1" [] d = 2 -> "2" [] d = 3 -> "3" [] d = 4 -> "4"
    [] d = 5 -> "5" [] d = 6 -> "6" [] d = 7 -> "7" [] d = 8 -> "8" [] d = 9 -> "9"

DigitValue(c) ==
  CASE c = "0" -> 0 [] c = "1" -> 1 [] c = "2" -> 2 [] c = "3" -> 3 [] c = "4" -> 4
    [] c = "5" -> 5 [] c = "6" -> 6 [] c = "7" -> 7 [] c = "8" -> 8 [] c = "9" -> 9

IsDigit(c) == c \in {"0", "1", "2", "3", "4", "5", "6", "7", "8", "9"}

\* std::to_string of a non-negative int: its decimal digits.
RECURSIVE to_string(_)
to_string(n) ==
  IF n < 10 THEN <<Digit(n)>> ELSE to_string(n \div 10) \o <<Digit(n % 10)>>

\* The texts the breakpoint definitions and the scripts are made of.
T_return == <<"r", "e", "t", "u", "r", "n", " ">>
T_tostring == <<"t", "o", "s", "t", "r", "i", "n", "g", "(">>
T_close == <<")">>
T_nl == <<"\n">>
T_nil == <<"n", "i", "l">>
T_x == <<"x">>
T_x_gt_1 == <<"x", ">", "1">>
T_ge_2 == <<">", "=", "2">>
T_space == <<" ">>
T_bad == <<"?">>
T_log == <<"x", "=", "{", "x", "}">>

IsPrefix(p, s) == Len(p) <= Len(s) /\ SubSeq(s, 1, Len(p)) = p
IsSuffix(p, s) == Len(p) <= Len(s) /\ SubSeq(s, Len(s) - Len(p) + 1, Len(s)) = p
Drop(s, n) == SubSeq(s, n + 1, Len(s))

\* ------------------------------------------------- the guest and its values
\* A guest value: boolean, number, string or nil.
VBool(b) == [t |-> "boolean", b |-> b, n |-> 0, s |-> <<>>]
VNum(n) == [t |-> "number", b |-> FALSE, n |-> n, s |-> <<>>]
VStr(s) == [t |-> "string", b |-> FALSE, n |-> 0, s |-> s]
VNil == [t |-> "nil", b |-> FALSE, n |-> 0, s |-> <<>>]

\* The execution context: the value of the guest variable x in the frame
\* the line hook runs in.
Contexts == {VNil, VNum(0), VNum(2), VNum(42)}

\* The guest's string conversion of a value (tostring).
GuestToString(v) ==
  CASE v.t = "number" -> to_string(v.n)
    [] v.t = "boolean" -> IF v.b THEN <<"t", "r", "u", "e">> ELSE <<"f", "a", "l", "s", "e">>
    [] v.t = "string" -> v.s
    [] OTHER -> T_nil

IsIdent(e) == e # <<>> /\ \A i \in 1..Len(e) : e[i] = "x"
IsBlank(e) == \A i \in 1..Len(e) : e[i] = " "
LeadingDigits(s) ==
  IF \E i \in 1..Len(s) : ~IsDigit(s[i])
  THEN (CHOOSE i \in 1..Len(s) : ~IsDigit(s[i]) /\ \A j \in 1..(i - 1) : IsDigit(s[j])) - 1
  ELSE Len(s)
RECURSIVE ParseNat(_)
ParseNat(ds) ==
  IF ds = <<>> THEN 0
  ELSE 10 * ParseNat(SubSeq(ds, 1, Len(ds) - 1)) + DigitValue(ds[Len(ds)])

Failure == [ok |-> FALSE, results |-> <<>>]
Success(rs) == [ok |-> TRUE, results |-> rs]

\* The guest's value of an expression in context x: an identifier made of
\* x's reads the variable (the one-letter x) or an undefined global (nil),
\* "x>1" compares, "<digits> >=2" compares the number written, a blank
\* expression yields no result and every other text fails to evaluate.
GuestExpr(e, x) ==
  CASE IsBlank(e) -> Success(<<>>)
    [] e = T_x -> Success(<<x>>)
    [] IsIdent(e) /\ e # T_x -> Success(<<VNil>>)
    [] e = T_x_gt_1 -> IF x.t = "number" THEN Success(<<VBool(x.n > 1)>>) ELSE Failure
    [] LeadingDigits(e) > 0 /\ Drop(e, LeadingDigits(e)) = T_space \o T_ge_2 ->
         Success(<<VBool(ParseNat(SubSeq(e, 1, LeadingDigits(e))) >= 2)>>)
    [] OTHER -> Failure

\* evaluate(L, ar, script, nresult): runs the script in the context.
evaluate(script, x) ==
  IF ~IsPrefix(T_return, script) THEN Failure
  ELSE LET body == Drop(script, Len(T_return)) IN
       IF IsPrefix(T_tostring, body) /\ IsSuffix(T_close, body)
       THEN LET e == SubSeq(body, Len(T_tostring) + 1, Len(body) - 1)
                r == GuestExpr(e, x) IN
            IF r.ok /\ Len(r.results) > 0
            THEN Success(<<VStr(GuestToString(r.results[1]))>>)
            ELSE Failure
       ELSE GuestExpr(body, x)

\* ------------------------------------------------------- evaluate_* helpers
\* evaluate_isok without the test for the boolean type: lua_toboolean alone.
evaluate_isok_truthy(script, x) ==
  LET r == evaluate(T_return \o script, x) IN
  IF ~r.ok THEN FALSE
  ELSE /\ Len(r.results) > 0
       /\ r.results[1].t # "nil"
       /\ (r.results[1].t = "boolean" => r.results[1].b)

evaluate_isok(script, x) ==
  LET r == evaluate(T_return \o script, x) IN
  IF ~r.ok THEN FALSE
  ELSE Len(r.results) > 0 /\ r.results[1].t = "boolean" /\ r.results[1].b

\* evaluate_getstr giving the guest's text for nil where evaluation fails.
evaluate_getstr_nil(script, x) ==
  LET r == evaluate(T_return \o T_tostring \o script \o T_close, x) IN
  IF ~r.ok THEN T_nil
  ELSE IF Len(r.results) <= 0 THEN T_nil
  ELSE GuestToString(r.results[1])

evaluate_getstr(script, x) ==
  LET r == evaluate(T_return \o T_tostring \o script \o T_close, x) IN
  IF ~r.ok THEN <<>>
  ELSE IF Len(r.results) <= 0 THEN <<>>
  ELSE GuestToString(r.results[1])

\* The first index >= from at which text s holds character c, or 0.
FirstIndex(s, c, from) ==
  IF \E i \in from..Len(s) : s[i] = c
  THEN CHOOSE i \in from..Len(s) : s[i] = c /\ \A j \in from..(i - 1) : s[j] # c
  ELSE 0

\* The last index >= from at which text s holds character c, or 0.
LastIndex(s, c, from) ==
  IF \E i \in from..Len(s) : s[i] = c
  THEN CHOOSE i \in from..Len(s) : s[i] = c /\ \A j \in (i + 1)..Len(s) : s[j] # c
  ELSE 0

\* The search for \{.*\}, which runs to the last closing brace.
regex_search_greedy(log, it) ==
  LET i == FirstIndex(log, "{", it)
      j == IF i = 0 THEN 0 ELSE LastIndex(log, "}", i + 1) IN
  IF j = 0 THEN <<0, 0>> ELSE <<i, j>>

\* std::regex_search for \{[^\}]*\} from position it: <<first, last>> of the
\* leftmost match, or <<0, 0>>.
regex_search(log, it) ==
  LET i == FirstIndex(log, "{", it)
      j == IF i = 0 THEN 0 ELSE FirstIndex(log, "}", i + 1) IN
  IF j = 0 THEN <<0, 0>> ELSE <<i, j>>

RECURSIVE evaluate_log_from(_, _, _)
evaluate_log_from(log, it, x) ==
  LET m == regex_search(log, it) IN
  IF m = <<0, 0>> THEN SubSeq(log, it, Len(log))
  ELSE SubSeq(log, it, m[1] - 1)
         \o evaluate_getstr(SubSeq(log, m[1] + 1, m[2] - 1), x)
         \o evaluate_log_from(log, m[2] + 1, x)

evaluate_log(log, x) == evaluate_log_from(log, 1, x)

\* --------------------------------------------------------------- the store
Paths == {"a.lua", "b.lua"}
Handles == {1}
Funcs == {1}
Lines == {0, 1}

VARIABLES
  files,       \* files_: client path -> bp_source (line -> bp)
  memorys,     \* memorys_: source reference -> bp_source
  fast_table,  \* fast_table_: element line+1 counts the tables holding line
  functions,   \* functions_: function address -> bp_function
  out,         \* what dbg_->output received during the last operation
  last,        \* the last operation, its arguments and its return value
  passes,      \* for each pair, the has calls on its table since the record
               \* was inserted that found the condition empty or true
  frame        \* the has call that is waiting for the guest to evaluate a
               \* script: where it waits and the record its bp& refers to

vars == <<files, memorys, fast_table, functions, out, last, passes, frame>>

\* A breakpoint definition as the protocol layer hands it over: the members
\* it has, and their values.
Info(members, c, h, l) ==
  [members |-> members, condition |-> c, hitCondition |-> h, logMessage |-> l]
HasMember(info, m) == m \in info.members

I_plain == Info({}, <<>>, <<>>, <<>>)
I_cond == Info({"condition"}, T_x_gt_1, <<>>, <<>>)
I_hit == Info({"hitCondition"}, <<>>, T_ge_2, <<>>)
I_log == Info({"logMessage"}, <<>>, <<>>, T_log)
I_all == Info({"condition", "hitCondition", "logMessage"}, T_x_gt_1, T_ge_2, T_log)

\* bp::bp with the hit counter started over.
bp_reset(info, h) ==
  [cond |-> IF HasMember(info, "condition") THEN info.condition ELSE <<>>,
   hitcond |-> IF HasMember(info, "hitCondition") THEN info.hitCondition ELSE <<>>,
   log |-> IF HasMember(info, "logMessage") THEN info.logMessage \o T_nl ELSE <<>>,
   hit |-> 0]

\* bp::bp(info, h)
bp(info, h) ==
  [cond |-> IF HasMember(info, "condition") THEN info.condition ELSE <<>>,
   hitcond |-> IF HasMember(info, "hitCondition") THEN info.hitCondition ELSE <<>>,
   log |-> IF HasMember(info, "logMessage") THEN info.logMessage \o T_nl ELSE <<>>,
   hit |-> h]

EmptySource == [l \in {} |-> bp(I_plain, 0)]
EmptyMap == [k \in {} |-> EmptySource]

\* std::map::operator[]: the map with an empty bp_source at key when absent.
get_bp(map, key) ==
  IF key \in DOMAIN map THEN map
  ELSE [k \in DOMAIN map \cup {key} |-> IF k = key THEN EmptySource ELSE map[k]]

\* fast_table_[line], the array being indexed from 0.
At(ft, line) == ft[line + 1]
Decrement(ft, line) == [ft EXCEPT ![line + 1] = @ - 1]
Increment(ft, line) == [ft EXCEPT ![line + 1] = @ + 1]

\* resize to newsize and fill_n the new elements with 0.
Grow(ft, newsize) == ft \o [i \in 1..(newsize - Len(ft)) |-> 0]

\* add taking the definition as the whole new list of its source: the
\* records at the other lines of the table are dropped.
add_only(bps, line, bpinfo, ft) ==
  IF line \in DOMAIN bps
  THEN [bps |-> [l \in {line} |-> bp(bpinfo, bps[line].hit)], ft |-> ft]
  ELSE [bps |-> [l \in {line} |-> bp(bpinfo, 0)],
        ft |-> Increment(IF line >= Len(ft) THEN Grow(ft, line + 1) ELSE ft, line)]

\* add making the record anew, hit counter included, where one exists.
add_restart(bps, line, bpinfo, ft) ==
  IF line \in DOMAIN bps
  THEN [bps |-> [bps EXCEPT ![line] = bp(bpinfo, 0)], ft |-> ft]
  ELSE [bps |-> [l \in DOMAIN bps \cup {line} |->
                   IF l = line THEN bp(bpinfo, 0) ELSE bps[l]],
        ft |-> Increment(IF line >= Len(ft) THEN Grow(ft, line + 1) ELSE ft, line)]

\* breakpoint::add(bp_source&, line, bpinfo): the table and the index after.
add(bps, line, bpinfo, ft) ==
  IF line \in DOMAIN bps
  THEN [bps |-> [bps EXCEPT ![line] = bp(bpinfo, bps[line].hit)], ft |-> ft]
  ELSE [bps |-> [l \in DOMAIN bps \cup {line} |->
                   IF l = line THEN bp(bpinfo, 0) ELSE bps[l]],
        ft |-> Increment(IF line >= Len(ft) THEN Grow(ft, line + 1) ELSE ft, line)]

\* The loop of clear(bp_source&) zeroing the counters instead.
ZeroAll(ft, ls) == [i \in 1..Len(ft) |-> IF (i - 1) \in ls THEN 0 ELSE ft[i]]

\* breakpoint::clear(bp_source&): one decrement for each line of the table.
RECURSIVE DecrementAll(_, _)
DecrementAll(ft, ls) ==
  IF ls = {} THEN ft
  ELSE LET l == CHOOSE l \in ls : TRUE IN DecrementAll(Decrement(ft, l), ls \ {l})

\* clear(bp_source&) without its loop.
clear_source_keep(bps, ft) == [bps |-> EmptySource, ft |-> ft]

clear_source(bps, ft) == [bps |-> EmptySource, ft |-> DecrementAll(ft, DOMAIN bps)]

\* The record of an operation. lookups: the calls of find on a table has
\* made; desc: the source descriptor of the function get_function was
\* called for; src: the text of ar->source get_function
\* read, empty when it read none; cleared: clear() has run and no add since;
\* gone: the pairs that held a breakpoint when it ran.
Op(op, cleared, gone) ==
  [op |-> op, space |-> "none", path |-> "", ref |-> 0, line |-> 0,
   f |-> 0, x |-> VNil, ret |-> FALSE, found |-> FALSE, ub |-> FALSE, lookups |-> 0,
   evals |-> <<>>, lines |-> {}, src |-> <<>>, desc |-> <<>>, cleared |-> cleared, gone |-> gone]

NoOp(op) == Op(op, last.cleared, last.gone)

\* The pairs of both keyspaces that hold a breakpoint.
Pairs ==
  {<<"files", p, 0, l>> : p \in Paths, l \in Lines}
    \cup {<<"memorys", "", h, l>> : h \in Handles, l \in Lines}
Held ==
  {q \in Pairs :
     IF q[1] = "files"
     THEN q[2] \in DOMAIN files /\ q[4] \in DOMAIN files[q[2]]
     ELSE q[3] \in DOMAIN memorys /\ q[4] \in DOMAIN memorys[q[3]]}

NoPasses ==
  [files |-> [p \in Paths |-> [l \in Lines |-> 0]],
   memorys |-> [h \in Handles |-> [l \in Lines |-> 0]]]

\* The script yields at least one result and the first is the boolean true.
YieldsTrue(script, x) ==
  LET r == evaluate(T_return \o script, x) IN
  r.ok /\ Len(r.results) > 0 /\ r.results[1].t = "boolean" /\ r.results[1].b

\* No has call is in progress.
Idle ==
  [pc |-> "idle", space |-> "none", path |-> "", ref |-> 0, line |-> 0,
   x |-> VNil, script |-> <<>>, evals |-> <<>>, removed |-> FALSE, replaced |-> FALSE]

\* The frame after clear(bp_source&) on the table of the key: the record a
\* waiting has call refers to is destroyed with the others of its table.
AfterClear(space, path, ref) ==
  IF frame.pc # "idle" /\ frame.space = space /\ frame.path = path /\ frame.ref = ref
  THEN [frame EXCEPT !.removed = TRUE]
  ELSE frame

\* The frame after add on the pair: an existing record is assigned to, and
\* with it the log text a waiting evaluate_log is reading.
AfterAdd(space, path, ref, line) ==
  IF /\ frame.pc = "log" /\ ~frame.removed
     /\ frame.space = space /\ frame.path = path /\ frame.ref = ref /\ frame.line = line
  THEN [frame EXCEPT !.replaced = TRUE]
  ELSE frame

Init ==
  /\ frame = Idle
  /\ passes = NoPasses
  /\ files = EmptyMap
  /\ memorys = EmptyMap
  /\ fast_table = <<>>
  /\ functions = [f \in {} |-> 0]
  /\ out = <<>>
  /\ last = Op("init", FALSE, {})

\* breakpoint::add(client_path, line, bp)
AddFile(path, line, info) ==
  LET m == get_bp(files, path)
      r == add(m[path], line, info, fast_table) IN
  /\ files' = [m EXCEPT ![path] = r.bps]
  /\ fast_table' = r.ft
  /\ out' = <<>>
  /\ last' = [Op("add", FALSE, {}) EXCEPT !.space = "files", !.path = path, !.line = line,
                                 !.found = (path \in DOMAIN files /\ line \in DOMAIN files[path])]
  /\ frame' = AfterAdd("files", path, 0, line)
  /\ UNCHANGED <<memorys, functions, passes>>

\* breakpoint::add(source_ref, line, bp)
AddMemory(ref, line, info) ==
  LET m == get_bp(memorys, ref)
      r == add(m[ref], line, info, fast_table) IN
  /\ memorys' = [m EXCEPT ![ref] = r.bps]
  /\ fast_table' = r.ft
  /\ out' = <<>>
  /\ last' = [Op("add", FALSE, {}) EXCEPT !.space = "memorys", !.ref = ref, !.line = line,
                                 !.found = (ref \in DOMAIN memorys /\ line \in DOMAIN memorys[ref])]
  /\ frame' = AfterAdd("memorys", "", ref, line)
  /\ UNCHANGED <<files, functions, passes>>

\* breakpoint::get_bp(clientpath), called by itself
LookupFile(path) ==
  /\ files' = get_bp(files, path)
  /\ out' = <<>>
  /\ last' = [NoOp("lookup") EXCEPT !.space = "files", !.path = path,
                                    !.found = (path \in DOMAIN files)]
  /\ UNCHANGED <<memorys, fast_table, functions, passes, frame>>

\* breakpoint::get_bp(sourceref), called by itself
LookupMemory(ref) ==
  /\ memorys' = get_bp(memorys, ref)
  /\ out' = <<>>
  /\ last' = [NoOp("lookup") EXCEPT !.space = "memorys", !.ref = ref,
                                    !.found = (ref \in DOMAIN memorys)]
  /\ UNCHANGED <<files, fast_table, functions, passes, frame>>

\* breakpoint::clear(client_path)
ClearFile(path) ==
  /\ IF path \in DOMAIN files
     THEN LET r == clear_source(files[path], fast_table) IN
          /\ files' = [files EXCEPT ![path] = r.bps]
          /\ fast_table' = r.ft
     ELSE UNCHANGED <<files, fast_table>>
  /\ out' = <<>>
  /\ last' = [NoOp("clear_source") EXCEPT !.space = "files", !.path = path,
                  !.found = (path \in DOMAIN files),
                  !.lines = IF path \in DOMAIN files THEN DOMAIN files[path] ELSE {}]
  /\ passes' = [passes EXCEPT !.files[path] = [l \in Lines |-> 0]]
  /\ frame' = AfterClear("files", path, 0)
  /\ UNCHANGED <<memorys, functions>>

\* breakpoint::clear(source_ref)
ClearMemory(ref) ==
  /\ IF ref \in DOMAIN memorys
     THEN LET r == clear_source(memorys[ref], fast_table) IN
          /\ memorys' = [memorys EXCEPT ![ref] = r.bps]
          /\ fast_table' = r.ft
     ELSE UNCHANGED <<memorys, fast_table>>
  /\ out' = <<>>
  /\ last' = [NoOp("clear_source") EXCEPT !.space = "memorys", !.ref = ref,
                  !.found = (ref \in DOMAIN memorys),
                  !.lines = IF ref \in DOMAIN memorys THEN DOMAIN memorys[ref] ELSE {}]
  /\ passes' = [passes EXCEPT !.memorys[ref] = [l \in Lines |-> 0]]
  /\ frame' = AfterClear("memorys", "", ref)
  /\ UNCHANGED <<files, functions>>

\* What clear() leaves of the function cache: the cache is not touched, and
\* every table a bp_function points to has been destroyed with its map.
Orphaned(fns) ==
  [f \in DOMAIN fns |-> IF fns[f].bp = "null" THEN fns[f]
                         ELSE [fns[f] EXCEPT !.dangling = TRUE]]

\* clear() without fast_table_.clear().
Clear_keepindex ==
  /\ files' = EmptyMap
  /\ memorys' = EmptyMap
  /\ fast_table' = fast_table
  /\ functions' = Orphaned(functions)
  /\ out' = <<>>
  /\ last' = Op("clear", TRUE, Held)
  /\ passes' = NoPasses
  /\ frame' = IF frame.pc = "idle" THEN frame ELSE [frame EXCEPT !.removed = TRUE]

\* breakpoint::clear()
Clear ==
  /\ files' = EmptyMap
  /\ memorys' = EmptyMap
  /\ fast_table' = <<>>
  /\ functions' = Orphaned(functions)
  /\ out' = <<>>
  /\ last' = Op("clear", TRUE, Held)
  /\ passes' = NoPasses
  /\ frame' = IF frame.pc = "idle" THEN frame ELSE [frame EXCEPT !.removed = TRUE]

\* ------------------------------------------------------- the function cache
\* What lua_getinfo "S" gives for a function: the text of ar->source and
\* the address it is stored at.
Descriptors ==
  {[source |-> <<"@", "a">>, addr |-> 2],
   [source |-> <<"@", "b">>, addr |-> 3],
   [source |-> <<"=", "?">>, addr |-> 4],
   [source |-> <<"x">>, addr |-> 1]}

\* pathconvert::get(source, clientpath): the client path of a chunk loaded
\* from a file the client knows.
pathconvert_get(source) ==
  CASE source = <<"@", "a">> -> [found |-> TRUE, clientpath |-> "a.lua"]
    [] source = <<"@", "b">> -> [found |-> TRUE, clientpath |-> "b.lua"]
    [] OTHER -> [found |-> FALSE, clientpath |-> ""]

Unbound == [clientpath |-> "", sourceref |-> 0, bp |-> "null", dangling |-> FALSE]

\* bp_function::bp_function(L, ar, breakpoint): the object constructed; bp
\* names the map its table is a value of, clientpath or sourceref the key.
\* bp_function::bp_function binding to memorys_ at the address of the
\* descriptor when the path conversion fails.
bp_function_fallback(sOk, d) ==
  IF ~sOk THEN Unbound
  ELSE IF Len(d.source) > 0 /\ d.source[1] \in {"@", "="}
  THEN LET c == pathconvert_get(d.source) IN
       IF c.found THEN [Unbound EXCEPT !.clientpath = c.clientpath, !.bp = "files"]
       ELSE [Unbound EXCEPT !.sourceref = d.addr, !.bp = "memorys"]
  ELSE [Unbound EXCEPT !.sourceref = d.addr, !.bp = "memorys"]

bp_function(sOk, d) ==
  IF ~sOk THEN Unbound
  ELSE IF Len(d.source) > 0 /\ d.source[1] \in {"@", "="}
  THEN LET c == pathconvert_get(d.source) IN
       IF c.found THEN [Unbound EXCEPT !.clientpath = c.clientpath, !.bp = "files"]
       ELSE [Unbound EXCEPT !.clientpath = c.clientpath]
  ELSE [Unbound EXCEPT !.sourceref = d.addr, !.bp = "memorys"]

\* The table bp_function p points to holds a breakpoint, fs and ms being
\* files_ and memorys_.
Populated(p, fs, ms) ==
  /\ p.bp # "null" /\ ~p.dangling
  /\ IF p.bp = "files"
     THEN p.clientpath \in DOMAIN fs /\ DOMAIN fs[p.clientpath] # {}
     ELSE p.sourceref \in DOMAIN ms /\ DOMAIN ms[p.sourceref] # {}

\* get_function returning func only when the table func->bp points to
\* holds a breakpoint.
GetFunction_nonempty(fOk, f, sOk, d) ==
  /\ out' = <<>>
  /\ UNCHANGED <<passes, frame>>
  /\ IF ~fOk
     THEN /\ last' = [NoOp("get_function") EXCEPT !.f = f, !.desc = d.source]
          /\ UNCHANGED <<files, memorys, fast_table, functions>>
     ELSE IF f \in DOMAIN functions
     THEN /\ last' = [NoOp("get_function") EXCEPT !.f = f, !.found = TRUE,
                        !.desc = d.source,
                        !.ret = Populated(functions[f], files, memorys)]
          /\ UNCHANGED <<files, memorys, fast_table, functions>>
     ELSE LET func == bp_function(sOk, d) IN
          /\ files' = IF func.bp = "files" THEN get_bp(files, func.clientpath) ELSE files
          /\ memorys' = IF func.bp = "memorys" THEN get_bp(memorys, func.sourceref) ELSE memorys
          /\ functions' = [g \in DOMAIN functions \cup {f} |->
                             IF g = f THEN func ELSE functions[g]]
          /\ last' = [NoOp("get_function") EXCEPT !.f = f,
                        !.ret = Populated(func, files, memorys),
                        !.space = IF func.bp = "null" THEN "none" ELSE func.bp,
                        !.path = func.clientpath, !.ref = func.sourceref,
                        !.src = IF sOk THEN d.source ELSE <<>>, !.desc = d.source]
          /\ UNCHANGED fast_table

\* get_function making the bp_function anew at every call.
GetFunction_fresh(fOk, f, sOk, d) ==
  /\ out' = <<>>
  /\ UNCHANGED <<passes, frame>>
  /\ IF ~fOk
     THEN /\ last' = [NoOp("get_function") EXCEPT !.f = f, !.desc = d.source]
          /\ UNCHANGED <<files, memorys, fast_table, functions>>
     ELSE LET func == bp_function(sOk, d) IN
          /\ files' = IF func.bp = "files" THEN get_bp(files, func.clientpath) ELSE files
          /\ memorys' = IF func.bp = "memorys" THEN get_bp(memorys, func.sourceref) ELSE memorys
          /\ functions' = [g \in DOMAIN functions \cup {f} |->
                             IF g = f THEN func ELSE functions[g]]
          /\ last' = [NoOp("get_function") EXCEPT !.f = f, !.ret = (func.bp # "null"),
                        !.found = (f \in DOMAIN functions),
                        !.space = IF func.bp = "null" THEN "none" ELSE func.bp,
                        !.path = func.clientpath, !.ref = func.sourceref,
                        !.src = IF sOk THEN d.source ELSE <<>>, !.desc = d.source]
          /\ UNCHANGED fast_table

\* breakpoint::get_function(L, ar): fOk and sOk are what lua_getinfo "f" and
\* "S" return, f the address of the function, d its descriptor.
GetFunction(fOk, f, sOk, d) ==
  /\ out' = <<>>
  /\ UNCHANGED <<passes, frame>>
  /\ IF ~fOk
     THEN /\ last' = [NoOp("get_function") EXCEPT !.f = f, !.desc = d.source]
          /\ UNCHANGED <<files, memorys, fast_table, functions>>
     ELSE IF f \in DOMAIN functions
     THEN /\ last' = [NoOp("get_function") EXCEPT !.f = f, !.found = TRUE,
                        !.desc = d.source,
                        !.ret = (functions[f].bp # "null")]
          /\ UNCHANGED <<files, memorys, fast_table, functions>>
     ELSE LET func == bp_function(sOk, d) IN
          /\ files' = IF func.bp = "files" THEN get_bp(files, func.clientpath) ELSE files
          /\ memorys' = IF func.bp = "memorys" THEN get_bp(memorys, func.sourceref) ELSE memorys
          /\ functions' = [g \in DOMAIN functions \cup {f} |->
                             IF g = f THEN func ELSE functions[g]]
          /\ last' = [NoOp("get_function") EXCEPT !.f = f, !.ret = (func.bp # "null"),
                        !.space = IF func.bp = "null" THEN "none" ELSE func.bp,
                        !.path = func.clientpath, !.ref = func.sourceref,
                        !.src = IF sOk THEN d.source ELSE <<>>, !.desc = d.source]
          /\ UNCHANGED fast_table

\* ------------------------------------------------------- the per-hit protocol
\* has with the hit counted after the hit condition is evaluated.
has_bp_late(b, x) ==
  IF b.cond # <<>> /\ ~evaluate_isok(b.cond, x)
  THEN [ret |-> FALSE, bp |-> b, out |-> <<>>, evals |-> <<b.cond>>]
  ELSE LET h == [b EXCEPT !.hit = @ + 1]
           script == to_string(b.hit) \o T_space \o b.hitcond
           e1 == IF b.cond # <<>> THEN <<b.cond>> ELSE <<>> IN
       IF b.hitcond # <<>> /\ ~evaluate_isok(script, x)
       THEN [ret |-> FALSE, bp |-> h, out |-> <<>>, evals |-> e1 \o <<script>>]
       ELSE LET e2 == IF h.hitcond # <<>> THEN e1 \o <<script>> ELSE e1 IN
            IF h.log # <<>>
            THEN [ret |-> FALSE, bp |-> h,
                  out |-> <<[channel |-> "stdout", text |-> evaluate_log(h.log, x)]>>,
                  evals |-> e2]
            ELSE [ret |-> TRUE, bp |-> h, out |-> <<>>, evals |-> e2]

\* has without the return that follows the output of a log message.
has_bp_logpause(b, x) ==
  IF b.cond # <<>> /\ ~evaluate_isok(b.cond, x)
  THEN [ret |-> FALSE, bp |-> b, out |-> <<>>, evals |-> <<b.cond>>]
  ELSE LET h == [b EXCEPT !.hit = @ + 1]
           script == to_string(h.hit) \o T_space \o h.hitcond
           e1 == IF b.cond # <<>> THEN <<b.cond>> ELSE <<>> IN
       IF h.hitcond # <<>> /\ ~evaluate_isok(script, x)
       THEN [ret |-> FALSE, bp |-> h, out |-> <<>>, evals |-> e1 \o <<script>>]
       ELSE LET e2 == IF h.hitcond # <<>> THEN e1 \o <<script>> ELSE e1 IN
            IF h.log # <<>>
            THEN [ret |-> TRUE, bp |-> h,
                  out |-> <<[channel |-> "stdout", text |-> evaluate_log(h.log, x)]>>,
                  evals |-> e2]
            ELSE [ret |-> TRUE, bp |-> h, out |-> <<>>, evals |-> e2]

\* breakpoint::has from the record found on: what is returned, the record
\* after, what is sent to the output and the scripts given to evaluate_isok.
has_bp(b, x) ==
  IF b.cond # <<>> /\ ~evaluate_isok(b.cond, x)
  THEN [ret |-> FALSE, bp |-> b, out |-> <<>>, evals |-> <<b.cond>>]
  ELSE LET h == [b EXCEPT !.hit = @ + 1]
           script == to_string(h.hit) \o T_space \o h.hitcond
           e1 == IF b.cond # <<>> THEN <<b.cond>> ELSE <<>> IN
       IF h.hitcond # <<>> /\ ~evaluate_isok(script, x)
       THEN [ret |-> FALSE, bp |-> h, out |-> <<>>, evals |-> e1 \o <<script>>]
       ELSE LET e2 == IF h.hitcond # <<>> THEN e1 \o <<script>> ELSE e1 IN
            IF h.log # <<>>
            THEN [ret |-> FALSE, bp |-> h,
                  out |-> <<[channel |-> "stdout", text |-> evaluate_log(h.log, x)]>>,
                  evals |-> e2]
            ELSE [ret |-> TRUE, bp |-> h, out |-> <<>>, evals |-> e2]

\* The test of fast_table_ letting every line through.
MayHave_open(ft, line) == TRUE

\* fast_table_ lets the line through.
MayHave(ft, line) == ~(line >= Len(ft) \/ At(ft, line) = 0)

\* breakpoint::has(src, line, L, ar) on the table at src.
has(bps, line, x, ft) ==
  IF ~MayHave(ft, line)
  THEN [ret |-> FALSE, bps |-> bps, out |-> <<>>, evals |-> <<>>, found |-> FALSE,
        lookups |-> 0]
  ELSE IF line \notin DOMAIN bps
  THEN [ret |-> FALSE, bps |-> bps, out |-> <<>>, evals |-> <<>>, found |-> FALSE,
        lookups |-> 1]
  ELSE LET r == has_bp(bps[line], x) IN
       [ret |-> r.ret, bps |-> [bps EXCEPT ![line] = r.bp], out |-> r.out,
        evals |-> r.evals, found |-> TRUE, lookups |-> 1]

\* has on the table the map of space holds at the key, called for function f.
HasOn(space, path, ref, line, x, f, ub) ==
  LET bps == IF space = "files" THEN files[path] ELSE memorys[ref]
      r == has(bps, line, x, fast_table) IN
  /\ files' = IF space = "files" THEN [files EXCEPT ![path] = r.bps] ELSE files
  /\ memorys' = IF space = "memorys" THEN [memorys EXCEPT ![ref] = r.bps] ELSE memorys
  /\ out' = r.out
  /\ last' = [NoOp("has") EXCEPT !.space = space, !.path = path, !.ref = ref,
                !.line = line, !.f = f, !.x = x, !.ret = r.ret, !.found = r.found,
                !.ub = ub, !.evals = r.evals, !.lookups = r.lookups]
  /\ passes' = IF line \in DOMAIN bps
                  /\ (bps[line].cond = <<>> \/ YieldsTrue(bps[line].cond, x))
               THEN IF space = "files"
                    THEN [passes EXCEPT !.files[path][line] = @ + 1]
                    ELSE [passes EXCEPT !.memorys[ref][line] = @ + 1]
               ELSE passes
  /\ UNCHANGED <<fast_table, functions, frame>>

\* What a read through a pointer to a destroyed table may send to the output.
Garbage == {<<>>, <<[channel |-> "stdout", text |-> T_nl]>>}

\* The line hook for a function whose bp_function get_function has just
\* made or found valid: has(&files_[path], line, L, ar).
HasFile(path, line, x) ==
  /\ path \in DOMAIN files
  /\ HasOn("files", path, 0, line, x, 0, FALSE)

\* has(&memorys_[ref], line, L, ar)
HasMemory(ref, line, x) ==
  /\ ref \in DOMAIN memorys
  /\ HasOn("memorys", "", ref, line, x, 0, FALSE)

\* The line hook through the cache: has(func->bp, line, L, ar) for a function
\* get_function returned a bp_function for. The table is not read when
\* fast_table_ holds the line back. A bp_function made before clear() points
\* to a destroyed table: reading it finds what the memory holds by then, a
\* table the store has put there since or the remains of the old one.
HasFunction(f, line, x) ==
  /\ f \in DOMAIN functions
  /\ functions[f].bp # "null"
  /\ LET p == functions[f] IN
     IF ~p.dangling
     THEN HasOn(p.bp, p.clientpath, p.sourceref, line, x, f, FALSE)
     ELSE IF ~MayHave(fast_table, line)
     THEN /\ out' = <<>>
          /\ last' = [NoOp("has") EXCEPT !.space = p.bp, !.path = p.clientpath,
                        !.ref = p.sourceref, !.line = line, !.f = f, !.x = x]
          /\ UNCHANGED <<files, memorys, fast_table, functions, passes, frame>>
     ELSE \/ \E k \in DOMAIN files : HasOn("files", k, 0, line, x, f, TRUE)
          \/ \E k \in DOMAIN memorys : HasOn("memorys", "", k, line, x, f, TRUE)
          \/ \E r \in BOOLEAN, o \in Garbage :
               /\ out' = o
               /\ last' = [NoOp("has") EXCEPT !.line = line, !.f = f, !.x = x,
                             !.ret = r, !.ub = TRUE, !.lookups = 1]
               /\ UNCHANGED <<files, memorys, fast_table, functions, passes, frame>>

\* ------------------------------------------- has, the guest calling back
\* evaluate runs guest code, and guest code may set and clear breakpoints
\* before it returns. has is taken in the steps between which that can
\* happen: it waits at pc "cond", "hitcond" or "log" while the guest
\* evaluates the condition, the hit condition or the segments of the log
\* message, holding bp& to the record it found.

Waiting(pc, script, b, counted) ==
  [wait |-> TRUE, pc |-> pc, script |-> script, bp |-> b, ret |-> FALSE,
   out |-> <<>>, counted |-> counted]
Returning(ret, o, b, counted) ==
  [wait |-> FALSE, pc |-> "idle", script |-> <<>>, bp |-> b, ret |-> ret,
   out |-> o, counted |-> counted]

\* has from line 194, the record being b.
after_hitcond(b, counted) ==
  IF b.log # <<>>
  THEN IF regex_search(b.log, 1) # <<0, 0>>
       THEN Waiting("log", <<>>, b, counted)
       ELSE Returning(FALSE, <<[channel |-> "stdout", text |-> b.log]>>, b, counted)
  ELSE Returning(TRUE, <<>>, b, counted)

\* has from line 189, the record being b.
after_cond(b) ==
  LET h == [b EXCEPT !.hit = @ + 1] IN
  IF h.hitcond # <<>>
  THEN Waiting("hitcond", to_string(h.hit) \o T_space \o h.hitcond, h, TRUE)
  ELSE after_hitcond(h, TRUE)

\* The store, the frame and the output once has has gone on to c for the
\* call (space, path, ref, line, x), evals being the scripts evaluated.
Settle(space, path, ref, line, x, evals, c) ==
  /\ files' = IF space = "files" THEN [files EXCEPT ![path][line] = c.bp] ELSE files
  /\ memorys' = IF space = "memorys" THEN [memorys EXCEPT ![ref][line] = c.bp] ELSE memorys
  /\ passes' = IF ~c.counted THEN passes
               ELSE IF space = "files"
               THEN [passes EXCEPT !.files[path][line] = @ + 1]
               ELSE [passes EXCEPT !.memorys[ref][line] = @ + 1]
  /\ out' = c.out
  /\ IF c.wait
     THEN /\ frame' = [Idle EXCEPT !.pc = c.pc, !.space = space, !.path = path,
                         !.ref = ref, !.line = line, !.x = x, !.script = c.script,
                         !.evals = IF c.script = <<>> THEN evals ELSE evals \o <<c.script>>]
          /\ last' = [NoOp("has_wait") EXCEPT !.space = space, !.path = path,
                        !.ref = ref, !.line = line, !.x = x, !.found = TRUE,
                        !.lookups = 1]
     ELSE /\ frame' = Idle
          /\ last' = [NoOp("has") EXCEPT !.space = space, !.path = path, !.ref = ref,
                        !.line = line, !.x = x, !.ret = c.ret, !.found = TRUE,
                        !.lookups = 1,
                        !.evals = evals]
  /\ UNCHANGED <<fast_table, functions>>

\* has up to the first script it gives the guest.
HasEnter(space, path, ref, line, x) ==
  /\ frame.pc = "idle"
  /\ IF space = "files" THEN path \in DOMAIN files ELSE ref \in DOMAIN memorys
  /\ LET bps == IF space = "files" THEN files[path] ELSE memorys[ref] IN
     IF ~MayHave(fast_table, line) \/ line \notin DOMAIN bps
     THEN HasOn(space, path, ref, line, x, 0, FALSE)
     ELSE IF bps[line].cond # <<>>
     THEN Settle(space, path, ref, line, x, <<>>,
                 Waiting("cond", bps[line].cond, bps[line], FALSE))
     ELSE Settle(space, path, ref, line, x, <<>>, after_cond(bps[line]))

\* The pair q with its hit counter one up.
Bumped(map, space, q) ==
  IF q[1] = space
  THEN IF space = "files" THEN [map EXCEPT ![q[2]][q[4]].hit = @ + 1]
       ELSE [map EXCEPT ![q[3]][q[4]].hit = @ + 1]
  ELSE map

\* has going on with a bp& whose record was destroyed while the guest ran
\* (or, reading the log, whose text was assigned to): the increment lands
\* on memory the store has freed, or has given to a record since, and what
\* is read from it decides the return value and the output.
Stale(writes) ==
  /\ frame' = Idle
  /\ \E r \in BOOLEAN, o \in Garbage :
       /\ out' = o
       /\ last' = [NoOp("has") EXCEPT !.space = frame.space, !.path = frame.path,
                     !.ref = frame.ref, !.line = frame.line, !.x = frame.x,
                     !.ret = r, !.ub = TRUE, !.evals = frame.evals, !.lookups = 1]
  /\ \/ UNCHANGED <<files, memorys>>
     \/ /\ writes
        /\ \E q \in Held : /\ files' = Bumped(files, "files", q)
                           /\ memorys' = Bumped(memorys, "memorys", q)
  /\ UNCHANGED <<fast_table, functions, passes>>

\* evaluate has returned to the has call that waits.
HasResume ==
  /\ frame.pc # "idle"
  /\ LET yes == evaluate_isok(frame.script, frame.x)
         b == IF frame.space = "files" THEN files[frame.path][frame.line]
              ELSE memorys[frame.ref][frame.line]
         leave == /\ frame' = Idle
                  /\ out' = <<>>
                  /\ last' = [NoOp("has") EXCEPT !.space = frame.space,
                                !.path = frame.path, !.ref = frame.ref,
                                !.line = frame.line, !.x = frame.x, !.found = TRUE,
                                !.lookups = 1,
                                !.evals = frame.evals]
                  /\ UNCHANGED <<files, memorys, fast_table, functions, passes>> IN
     CASE frame.pc = "cond" ->
            IF ~yes THEN leave
            ELSE IF frame.removed THEN Stale(TRUE)
            ELSE Settle(frame.space, frame.path, frame.ref, frame.line, frame.x,
                        frame.evals, after_cond(b))
       [] frame.pc = "hitcond" ->
            IF ~yes THEN leave
            ELSE IF frame.removed THEN Stale(FALSE)
            ELSE Settle(frame.space, frame.path, frame.ref, frame.line, frame.x,
                        frame.evals, after_hitcond(b, FALSE))
       [] frame.pc = "log" ->
            IF frame.removed \/ frame.replaced THEN Stale(FALSE)
            ELSE Settle(frame.space, frame.path, frame.ref, frame.line, frame.x,
                        frame.evals,
                        Returning(FALSE, <<[channel |-> "stdout",
                                            text |-> evaluate_log(b.log, frame.x)]>>,
                                  b, FALSE))

\* ----------------------------------------------------------- specification
\* The store under the protocol layer and the line hook: both keyspaces,
\* breakpoints set, replaced and cleared, lines run.
Infos == {I_plain, I_all}
StoreContexts == {VNum(2)}

RECURSIVE Count(_)
Count(map) ==
  IF DOMAIN map = {} THEN 0
  ELSE LET k == CHOOSE k \in DOMAIN map : TRUE IN
       Cardinality(DOMAIN map[k]) + Count([j \in DOMAIN map \ {k} |-> map[j]])

\* No hit counter of the store is above n.
HitsWithin(n) ==
  /\ \A k \in DOMAIN files : \A l \in DOMAIN files[k] : files[k][l].hit <= n
  /\ \A k \in DOMAIN memorys : \A l \in DOMAIN memorys[k] : memorys[k][l].hit <= n

\* The pair holds a breakpoint already, or the store has room for one more.
Room(map, key, line) ==
  \/ key \in DOMAIN map /\ line \in DOMAIN map[key]
  \/ Count(files) + Count(memorys) < MaxBps

Next ==
  \/ \E p \in Paths, l \in Lines, i \in Infos : Room(files, p, l) /\ AddFile(p, l, i)
  \/ \E h \in Handles, l \in Lines, i \in Infos : Room(memorys, h, l) /\ AddMemory(h, l, i)
  \/ \E p \in Paths : LookupFile(p)
  \/ \E h \in Handles : LookupMemory(h)
  \/ \E p \in Paths : ClearFile(p)
  \/ \E h \in Handles : ClearMemory(h)
  \/ Clear
  \/ \E p \in Paths, l \in Lines, x \in StoreContexts :
       HasFile(p, l, x) /\ HitsWithin(MaxStoreHit)'
  \/ \E h \in Handles, l \in Lines, x \in StoreContexts :
       HasMemory(h, l, x) /\ HitsWithin(MaxStoreHit)'

Spec == Init /\ [][Next]_vars

\* The per-hit protocol on one pair: every kind of condition and of hit
\* condition, with and without a log message, in every context.
I_cond_x == Info({"condition"}, T_x, <<>>, <<>>)
I_cond_blank == Info({"condition"}, T_space, <<>>, <<>>)
I_cond_bad == Info({"condition"}, T_bad, <<>>, <<>>)
I_hit_bad == Info({"hitCondition"}, <<>>, T_bad, <<>>)

HitInfos ==
  {I_plain, I_cond, I_hit, I_log, I_all, I_cond_x, I_cond_blank, I_cond_bad, I_hit_bad,
   Info({"condition", "hitCondition"}, T_x_gt_1, T_ge_2, <<>>),
   Info({"hitCondition", "logMessage"}, <<>>, T_ge_2, T_log),
   Info({"hitCondition", "logMessage"}, <<>>, T_bad, T_log)}
    \cup {Info({"condition", "logMessage"}, c, <<>>, T_log) :
            c \in {T_x_gt_1, T_x, T_space, T_bad}}

NextHit ==
  \/ \E i \in HitInfos : AddFile("a.lua", 0, i)
  \/ ClearFile("a.lua")
  \/ \E l \in Lines, x \in Contexts : HasFile("a.lua", l, x) /\ HitsWithin(MaxHit)'

SpecHit == Init /\ [][NextHit]_vars

\* The store with the function cache in front of it: functions resolved on
\* call events, lines run through the bp_function the cache holds.
NextCache ==
  \/ \E p \in Paths, l \in Lines : Room(files, p, l) /\ AddFile(p, l, I_plain)
  \/ \E h \in Handles, l \in Lines : Room(memorys, h, l) /\ AddMemory(h, l, I_plain)
  \/ \E p \in Paths : ClearFile(p)
  \/ \E h \in Handles : ClearMemory(h)
  \/ Clear
  \/ \E fOk \in BOOLEAN, f \in Funcs, sOk \in BOOLEAN, d \in Descriptors :
       GetFunction(fOk, f, sOk, d)
  \/ \E f \in Funcs, l \in Lines, x \in StoreContexts :
       HasFunction(f, l, x) /\ HitsWithin(MaxStoreHit)'

SpecCache == Init /\ [][NextCache]_vars

\* The store with the guest calling back: breakpoints are set and cleared
\* by the protocol layer between has calls and by guest code during them.
ReInfos == {I_cond, I_all}
RePaths == {"a.lua"}

NextReentrant ==
  \/ \E p \in RePaths, l \in Lines, i \in ReInfos : Room(files, p, l) /\ AddFile(p, l, i)
  \/ \E h \in Handles, l \in Lines, i \in ReInfos : Room(memorys, h, l) /\ AddMemory(h, l, i)
  \/ \E p \in RePaths : ClearFile(p)
  \/ \E h \in Handles : ClearMemory(h)
  \/ Clear
  \/ \E p \in RePaths, l \in Lines, x \in StoreContexts :
       HasEnter("files", p, 0, l, x) /\ HitsWithin(MaxStoreHit)'
  \/ \E h \in Handles, l \in Lines, x \in StoreContexts :
       HasEnter("memorys", "", h, l, x) /\ HitsWithin(MaxStoreHit)'
  \/ HasResume /\ HitsWithin(MaxStoreHit)'

SpecReentrant == Init /\ [][NextReentrant]_vars

\* Logpoints: a definition with a logMessage alone is set on a free pair,
\* its line is hit and its source cleared, for every logMessage of up to
\* MaxLogLen characters of LogAlphabet.
LogAlphabet == {"x", "=", "{", "}"}
LogMessages == UNION {[1..n -> LogAlphabet] : n \in 0..MaxLogLen}
LogInfo(m) == Info({"logMessage"}, <<>>, <<>>, m)
LogContexts == {VNil, VNum(42)}
LogPath == "a.lua"

NextLog ==
  \/ \E m \in LogMessages :
       /\ ~(LogPath \in DOMAIN files /\ 0 \in DOMAIN files[LogPath])
       /\ AddFile(LogPath, 0, LogInfo(m))
  \/ ClearFile(LogPath)
  \/ \E x \in LogContexts : HasFile(LogPath, 0, x) /\ HitsWithin(MaxStoreHit)'

SpecLog == Init /\ [][NextLog]_vars

\* ------------------------------------------------------------------ claims
\* fast_table_[line], taken as 0 outside the bounds of the array.
IndexValue(ft, line) == IF line < Len(ft) THEN At(ft, line) ELSE 0

\* The number of tables of both keyspaces that hold a breakpoint at line.
Holders(line) ==
  Cardinality({k \in DOMAIN files : line \in DOMAIN files[k]})
    + Cardinality({k \in DOMAIN memorys : line \in DOMAIN memorys[k]})

IsPlain(b) == b.cond = <<>> /\ b.hitcond = <<>> /\ b.log = <<>>

\* C1: after any sequence of add, clear(sourceKey), clear() and lookup over
\* both keyspaces, the index value of every line (0 outside the bounds)
\* is the number of tables, of both keyspaces together, that hold a
\* breakpoint at the line.
C1_IndexCountsTables ==
  \A line \in Lines \cup 0..Len(fast_table) :
    IndexValue(fast_table, line) = Holders(line)

\* A client path was cleared of a breakpoint at a line that a table of the
\* other keyspace still holds: the index value went from 2 to 1.
C1_Witness ==
  /\ last.op = "clear_source" /\ last.space = "files"
  /\ \E line \in last.lines :
       /\ IndexValue(fast_table, line) = 1
       /\ \E h \in DOMAIN memorys : line \in DOMAIN memorys[h]

\* The record add leaves at a pair: the fields of the definition, a field
\* the definition does not have being empty, and the hit counter h.
Overwritten(b, info, h) ==
  /\ b.cond = (IF "condition" \in info.members THEN info.condition ELSE <<>>)
  /\ b.hitcond = (IF "hitCondition" \in info.members THEN info.hitCondition ELSE <<>>)
  /\ b.log = (IF "logMessage" \in info.members THEN info.logMessage \o T_nl ELSE <<>>)
  /\ b.hit = h

AddPost(map, mapAfter, key, line, info) ==
  /\ key \in DOMAIN mapAfter /\ line \in DOMAIN mapAfter[key]
  /\ IF key \in DOMAIN map /\ line \in DOMAIN map[key]
     THEN /\ Overwritten(mapAfter[key][line], info, map[key][line].hit)
          /\ fast_table' = fast_table
     ELSE Overwritten(mapAfter[key][line], info, 0)

\* C5: an add on a pair that holds a breakpoint keeps its hitCount, puts the
\* fields of the new definition in place of the old ones (an absent field
\* becomes empty; the log message is stored with its line end) and leaves
\* the index alone; an add on a pair that holds none creates it with
\* hitCount 0.
C5_ReplaceKeepsHit ==
  [][/\ \A p \in Paths, l \in Lines, i \in Infos :
          AddFile(p, l, i) => AddPost(files, files', p, l, i)
     /\ \A h \in Handles, l \in Lines, i \in Infos :
          AddMemory(h, l, i) => AddPost(memorys, memorys', h, l, i)]_vars

\* An add has replaced a breakpoint that had been hit, by a definition
\* without a condition.
C5_Witness ==
  /\ last.op = "add" /\ last.found /\ last.space = "files"
  /\ files[last.path][last.line].hit >= 1
  /\ files[last.path][last.line].cond = <<>>

\* Every plain breakpoint of the table makes has return true on its line.
PlainOnesPause(bps, ft) ==
  \A l \in DOMAIN bps :
    IsPlain(bps[l]) => \A x \in Contexts : has(bps, l, x, ft).ret

\* C6: clearing source A removes the breakpoints of A alone: every table of
\* another source, in either keyspace, is as before, and a plain breakpoint
\* of another source still pauses on its line.
C6_ClearSourceFrame ==
  [][/\ \A a \in Paths : ClearFile(a) =>
          /\ DOMAIN files' = DOMAIN files
          /\ \A b \in DOMAIN files \ {a} :
               files'[b] = files[b] /\ PlainOnesPause(files'[b], fast_table')
          /\ memorys' = memorys
          /\ \A b \in DOMAIN memorys : PlainOnesPause(memorys'[b], fast_table')
          /\ a \in DOMAIN files => files'[a] = EmptySource
     /\ \A a \in Handles : ClearMemory(a) =>
          /\ DOMAIN memorys' = DOMAIN memorys
          /\ \A b \in DOMAIN memorys \ {a} :
               memorys'[b] = memorys[b] /\ PlainOnesPause(memorys'[b], fast_table')
          /\ files' = files
          /\ \A b \in DOMAIN files : PlainOnesPause(files'[b], fast_table')
          /\ a \in DOMAIN memorys => memorys'[a] = EmptySource]_vars

\* A source was cleared of a breakpoint at a line where another source of the
\* same keyspace holds a plain breakpoint that has been hit.
C6_Witness ==
  /\ last.op = "clear_source" /\ last.space = "files"
  /\ \E l \in last.lines : \E b \in DOMAIN files \ {last.path} :
       /\ l \in DOMAIN files[b]
       /\ IsPlain(files[b][l]) /\ files[b][l].hit >= 1
       /\ MayHave(fast_table, l)

\* The text has gives evaluate_isok for the hit condition of a record whose
\* hit counter is n when it is written.
HitScript(n, hitcond) == to_string(n) \o T_space \o hitcond

\* C2: for a breakpoint with a non-empty condition, a has call on its line in
\* which the condition fails to evaluate, yields no result or yields a first
\* result that is not the boolean true returns false, leaves hitCount as it
\* is and sends nothing to the output; a call in which the condition yields
\* true adds exactly 1 to hitCount.
C2_ConditionGates ==
  [][\A p \in Paths, l \in Lines, x \in Contexts :
       (/\ HasFile(p, l, x)
        /\ l \in DOMAIN files[p]
        /\ files[p][l].cond # <<>>) =>
         LET r == evaluate(T_return \o files[p][l].cond, x)
             yes == /\ r.ok
                    /\ Len(r.results) > 0
                    /\ r.results[1].t = "boolean" /\ r.results[1].b IN
         IF yes
         THEN files'[p][l].hit = files[p][l].hit + 1
         ELSE /\ last'.ret = FALSE
              /\ files'[p][l].hit = files[p][l].hit
              /\ out' = <<>>]_vars

\* A call returned false on a condition that failed to evaluate, for a
\* breakpoint an earlier call had counted a hit of.
C2_Witness ==
  /\ last.op = "has" /\ last.space = "files" /\ last.found
  /\ last.x = VNil /\ last.ret = FALSE /\ out = <<>>
  /\ files[last.path][last.line].cond = T_x_gt_1
  /\ files[last.path][last.line].hit = 1

\* Every hit counter of the store is the number of passes of its pair.
CountsHold ==
  /\ \A p \in DOMAIN files : \A l \in DOMAIN files[p] :
       files[p][l].hit = passes.files[p][l]
  /\ \A h \in DOMAIN memorys : \A l \in DOMAIN memorys[h] :
       memorys[h][l].hit = passes.memorys[h][l]

\* C3: hitCount is the number of has calls on the pair, since the record was
\* inserted, that found the condition empty or true; a call counts before the
\* hit condition is evaluated, the hit condition is evaluated with the count
\* that includes the call, and the call stays counted when the hit condition
\* holds the pause back (hit condition ">=2", no condition: false with
\* hitCount 1, then true with hitCount 2).
C3_HitCounting ==
  [][/\ CountsHold'
     /\ \A p \in Paths, l \in Lines, x \in Contexts :
          (HasFile(p, l, x) /\ l \in DOMAIN files[p]) =>
            LET b == files[p][l]
                after == files'[p][l]
                pass == b.cond = <<>> \/ YieldsTrue(b.cond, x)
                script == HitScript(b.hit + 1, b.hitcond) IN
            /\ after.hit = b.hit + (IF pass THEN 1 ELSE 0)
            /\ (pass /\ b.hitcond # <<>>) =>
                 /\ last'.evals # <<>>
                 /\ last'.evals[Len(last'.evals)] = script
                 /\ ~YieldsTrue(script, x) => last'.ret = FALSE /\ after.hit = b.hit + 1
            /\ (b.cond = <<>> /\ b.hitcond = T_ge_2 /\ b.log = <<>>) =>
                 /\ b.hit = 0 => last'.ret = FALSE /\ after.hit = 1
                 /\ b.hit = 1 => last'.ret = TRUE /\ after.hit = 2]_vars

\* The second call on a breakpoint with hit condition ">=2" and no condition
\* has returned true with hitCount 2.
C3_Witness ==
  /\ last.op = "has" /\ last.space = "files" /\ last.found /\ last.ret = TRUE
  /\ files[last.path][last.line].cond = <<>>
  /\ files[last.path][last.line].hitcond = T_ge_2
  /\ files[last.path][last.line].hit = 2
  /\ passes.files[last.path][last.line] = 2
  /\ last.evals = <<HitScript(2, T_ge_2)>>

\* C4: a breakpoint with a log message never pauses: every has call on its
\* line returns false whatever condition and hit condition are; when the
\* condition (if any) and the hit condition (if any) both pass, the call
\* sends exactly one message to the output, on channel "stdout", and it sends
\* none when either fails.
C4_LogpointsNeverPause ==
  [][\A p \in Paths, l \in Lines, x \in Contexts :
       (/\ HasFile(p, l, x)
        /\ l \in DOMAIN files[p]
        /\ files[p][l].log # <<>>) =>
         LET b == files[p][l]
             condPass == b.cond = <<>> \/ YieldsTrue(b.cond, x)
             hitPass == b.hitcond = <<>> \/ YieldsTrue(HitScript(b.hit + 1, b.hitcond), x) IN
         /\ last'.ret = FALSE
         /\ IF condPass /\ hitPass
            THEN Len(out') = 1 /\ out'[1].channel = "stdout"
            ELSE out' = <<>>]_vars

\* A logpoint with a condition and a hit condition has sent its message, both
\* having passed, and has not paused.
C4_Witness ==
  /\ last.op = "has" /\ last.space = "files" /\ last.found /\ last.ret = FALSE
  /\ files[last.path][last.line].cond = T_x_gt_1
  /\ files[last.path][last.line].hitcond = T_ge_2
  /\ files[last.path][last.line].log = T_log \o T_nl
  /\ files[last.path][last.line].hit = 2
  /\ Len(out) = 1 /\ out[1].channel = "stdout"

\* No hit counter differs between the store before and after the step.
HitsUnchanged == files' = files /\ memorys' = memorys

\* C7: after clear(), whatever came before, no line passes the index and has
\* returns false for every pair, those that held a breakpoint before the
\* clear() included, also through a bp_function cached before it, until an
\* add is made.
C7_ClearAllSilences ==
  [][/\ last'.cleared => \A line \in Lines : ~MayHave(fast_table', line)
     /\ (last.cleared /\ last'.cleared /\ last'.op = "has") =>
          /\ last'.ret = FALSE
          /\ ~last'.ub
          /\ out' = <<>>
          /\ HitsUnchanged]_vars

\* has was called, after a clear() and before any add, through a bp_function
\* cached before the clear() for a source that held a breakpoint at the line.
C7_Witness ==
  /\ last.op = "has" /\ last.cleared /\ last.ret = FALSE
  /\ last.f \in DOMAIN functions
  /\ functions[last.f].dangling
  /\ <<last.space, last.path, last.ref, last.line>> \in last.gone

\* C8: when guest code evaluated inside has sets or clears breakpoints, the
\* has call in progress never reads or writes a record that was removed
\* meanwhile: the increment of hitCount and the reads of the hit condition
\* and of the log message that follow the evaluation are not applied to a
\* record that is no longer in the store.
C8_NoStaleRecord == ~last.ub

\* What the log message displays for the expression of a segment: the
\* guest's text of its first result, nothing when its evaluation fails.
Display(e, x) ==
  LET r == GuestExpr(e, x) IN
  IF r.ok /\ Len(r.results) > 0 THEN GuestToString(r.results[1]) ELSE <<>>

\* The expressions of the segments of message m, left to right: a segment
\* opens at a { that a } follows and closes at the nearest one.
RECURSIVE Exprs(_)
Exprs(m) ==
  IF m = <<>> THEN <<>>
  ELSE IF Head(m) = "{" /\ \E j \in 2..Len(m) : m[j] = "}"
  THEN LET j == CHOOSE j \in 2..Len(m) : m[j] = "}" /\ \A k \in 2..(j - 1) : m[k] # "}" IN
       <<SubSeq(m, 2, j - 1)>> \o Exprs(SubSeq(m, j + 1, Len(m)))
  ELSE Exprs(Tail(m))

\* Message m with each segment replaced by what it displays.
RECURSIVE Interpolate(_, _)
Interpolate(m, x) ==
  IF m = <<>> THEN <<>>
  ELSE IF Head(m) = "{" /\ \E j \in 2..Len(m) : m[j] = "}"
  THEN LET j == CHOOSE j \in 2..Len(m) : m[j] = "}" /\ \A k \in 2..(j - 1) : m[k] # "}" IN
       Display(SubSeq(m, 2, j - 1), x) \o Interpolate(SubSeq(m, j + 1, Len(m)), x)
  ELSE <<Head(m)>> \o Interpolate(Tail(m), x)

\* The evaluation of the expression as a segment fails.
Fails(e, x) == ~evaluate(T_return \o T_tostring \o e \o T_close, x).ok
AllEvaluate(m, x) == \A i \in 1..Len(Exprs(m)) : ~Fails(Exprs(m)[i], x)

\* The logMessage of the definition the logpoint at the pair was made of:
\* the one bp::bp makes the record of, none (the empty set) when the pair
\* holds no such record.
Given ==
  IF LogPath \in DOMAIN files /\ 0 \in DOMAIN files[LogPath]
  THEN LET b == files[LogPath][0] IN
       {m \in {SubSeq(b.log, 1, Len(b.log) - 1)} :
          m \in LogMessages /\ b = bp(LogInfo(m), b.hit)}
  ELSE {}

\* The has call of the step is on the logpoint made of logMessage m.
HitsLogpoint(x) == HasFile(LogPath, 0, x)

\* C9 as stated: the text a logpoint emits is exactly the logMessage with
\* every segment replaced, in order, by the display text of the first result
\* of its expression, no character added before, between or after.
C9_ExactlyInterpolated ==
  [][\A m \in Given, x \in LogContexts :
       (HitsLogpoint(x) /\ AllEvaluate(m, x)) =>
         out' = <<[channel |-> "stdout", text |-> Interpolate(m, x)]>>]_vars

\* C9: the text a logpoint emits is the logMessage with every segment
\* replaced, in order, by the display text of the first result of its
\* expression, followed by one line end and nothing else ("x={x}" with
\* x = 42 gives "x=42" and the line end).
C9_InterpolatedLine ==
  [][\A m \in Given, x \in LogContexts :
       (HitsLogpoint(x) /\ AllEvaluate(m, x)) =>
         out' = <<[channel |-> "stdout", text |-> Interpolate(m, x) \o T_nl]>>]_vars

\* The logpoint "x={x}" has been hit with x = 42.
C9_Witness ==
  /\ last.op = "has" /\ last.found /\ last.x = VNum(42)
  /\ files[last.path][last.line].log = T_log \o T_nl
  /\ out = <<[channel |-> "stdout",
              text |-> <<"x", "=", "4", "2", "\n">>]>>

\* The description the evaluator leaves of the failure to evaluate e.
Description(e) == <<"e", "r", "r", "o", "r", ":", " ">> \o e
FirstFailing(m, x) ==
  LET es == Exprs(m)
      i == CHOOSE i \in 1..Len(es) :
             Fails(es[i], x) /\ \A k \in 1..(i - 1) : ~Fails(es[k], x) IN
  es[i]

\* C10 as stated: when the evaluation of a segment fails, the text emitted
\* is the description of the failure alone, none of the literal text and
\* of the other segments' values; one message is emitted and has returns
\* false.
C10_FailureAborts ==
  [][\A m \in Given, x \in LogContexts :
       (HitsLogpoint(x) /\ ~AllEvaluate(m, x)) =>
         /\ out' = <<[channel |-> "stdout", text |-> Description(FirstFailing(m, x))]>>
         /\ last'.ret = FALSE]_vars

\* C10: when the evaluation of a segment fails, the segment is replaced by
\* the empty text and interpolation goes on: the literal text and the other
\* segments' values are emitted as they are without the failure, followed
\* by the line end; one message is emitted and has returns false.
C10_FailureIsEmpty ==
  [][\A m \in Given, x \in LogContexts :
       (HitsLogpoint(x) /\ ~AllEvaluate(m, x)) =>
         /\ out' = <<[channel |-> "stdout", text |-> Interpolate(m, x) \o T_nl]>>
         /\ last'.ret = FALSE]_vars

\* The logpoint "{x}{}" has been hit with x = 42: the first segment is
\* displayed, the second fails.
C10_Witness ==
  /\ last.op = "has" /\ last.found /\ last.x = VNum(42) /\ last.ret = FALSE
  /\ files[last.path][last.line].log = <<"{", "x", "}", "{", "}", "\n">>
  /\ out = <<[channel |-> "stdout", text |-> <<"4", "2", "\n">>]>>

\* C11 as stated: get_function returns a bp_function only when the table it
\* is bound to holds at least one breakpoint, and null when that table is
\* empty, the bp_function being cached in both cases.
C11_OnlyWithBreakpoints ==
  [][\A f \in Funcs, sOk \in BOOLEAN, d \in Descriptors :
       (last'.op = "get_function" /\ GetFunction(TRUE, f, sOk, d)) =>
         /\ f \in DOMAIN functions'
         /\ last'.ret = Populated(functions'[f], files', memorys')]_vars

\* C11: get_function returns the bp_function whenever it is bound to a table
\* (its bp pointer is not null), whether or not that table holds a
\* breakpoint, and null only for one that is bound to no table; the
\* bp_function is cached under the function's address in both cases.
C11_WheneverBound ==
  [][\A f \in Funcs, sOk \in BOOLEAN, d \in Descriptors :
       (last'.op = "get_function" /\ GetFunction(TRUE, f, sOk, d)) =>
         /\ f \in DOMAIN functions'
         /\ last'.ret = (functions'[f].bp # "null")]_vars

\* get_function has returned a bp_function whose table is in the store and
\* holds no breakpoint.
C11_Witness ==
  /\ last.op = "get_function" /\ last.ret
  /\ last.f \in DOMAIN functions /\ ~functions[last.f].dangling
  /\ functions[last.f].bp = "files"
  /\ functions[last.f].clientpath \in DOMAIN files
  /\ DOMAIN files[functions[last.f].clientpath] = {}

\* The descriptor carries the marker of a chunk loaded from a file or named
\* by its loader, and the path conversion does not know it.
Unconvertible(d) ==
  /\ Len(d.source) > 0 /\ d.source[1] \in {"@", "="}
  /\ ~pathconvert_get(d.source).found

\* C12 as stated: the first get_function of a function whose descriptor has
\* the marker and fails the path conversion binds it to the table of
\* memorys_ at the descriptor's address, as for a chunk without marker.
C12_FallsBackToHandle ==
  [][\A f \in Funcs, d \in Descriptors :
       (/\ last'.op = "get_function" /\ f \notin DOMAIN functions /\ Unconvertible(d)
        /\ GetFunction(TRUE, f, TRUE, d)) =>
         /\ functions'[f].bp = "memorys"
         /\ functions'[f].sourceref = d.addr
         /\ d.addr \in DOMAIN memorys'
         /\ last'.ret]_vars

\* C12: the first get_function of a function whose descriptor has the marker
\* and fails the path conversion leaves the bp_function bound to no table
\* (bp null, sourceref 0): no table is made in either keyspace, null is
\* returned and the unbound bp_function is cached.
C12_StaysUnbound ==
  [][\A f \in Funcs, d \in Descriptors :
       (/\ last'.op = "get_function" /\ f \notin DOMAIN functions /\ Unconvertible(d)
        /\ GetFunction(TRUE, f, TRUE, d)) =>
         /\ f \in DOMAIN functions'
         /\ functions'[f].bp = "null" /\ functions'[f].sourceref = 0
         /\ files' = files /\ memorys' = memorys
         /\ ~last'.ret]_vars

\* A function whose descriptor is "=?" has been resolved for the first time.
C12_Witness ==
  /\ last.op = "get_function" /\ ~last.found /\ ~last.ret
  /\ last.src = <<"=", "?">>
  /\ last.f \in DOMAIN functions /\ functions[last.f].bp = "null"

\* C13: a get_function for which lua_getinfo gives no function address or
\* no source descriptor returns null and adds no entry to functions_, so a
\* later get_function of the same address with the descriptor at hand
\* resolves it afresh.
C13_UnavailableNotCached ==
  [][\A fOk \in BOOLEAN, f \in Funcs, sOk \in BOOLEAN, d \in Descriptors :
       (/\ GetFunction(fOk, f, sOk, d)
        /\ f \notin DOMAIN functions
        /\ (~fOk \/ ~sOk)) =>
         /\ ~last'.ret
         /\ functions' = functions]_vars

\* The map after an add at (key, line) holds every record it held at
\* another pair, unchanged, and no pair it did not hold but (key, line).
OthersKept(map, mapAfter, key, line) ==
  /\ DOMAIN mapAfter = DOMAIN map \cup {key}
  /\ \A k \in DOMAIN map : \A l \in DOMAIN map[k] :
       (k # key \/ l # line) => l \in DOMAIN mapAfter[k] /\ mapAfter[k][l] = map[k][l]
  /\ \A k \in DOMAIN mapAfter : \A l \in DOMAIN mapAfter[k] :
       (k # key \/ l # line) => k \in DOMAIN map /\ l \in DOMAIN map[k]

IndexKeptBut(line) ==
  \A l \in (Lines \cup 0..Len(fast_table')) \ {line} :
    IndexValue(fast_table', l) = IndexValue(fast_table, l)

\* C14: add(sourceKey, line, def) changes the record at (sourceKey, line)
\* and the index value of that line and nothing else: the records at the
\* other lines of the source and those of every other source, of either
\* keyspace, keep their fields and their hitCount, so a line that a later
\* add for the source does not name stays set.
C14_AddFrame ==
  [][last'.op = "add" =>
       /\ \A p \in Paths, l \in Lines, i \in Infos :
            AddFile(p, l, i) =>
              /\ OthersKept(files, files', p, l)
              /\ memorys' = memorys
              /\ IndexKeptBut(l)
       /\ \A h \in Handles, l \in Lines, i \in Infos :
            AddMemory(h, l, i) =>
              /\ OthersKept(memorys, memorys', h, l)
              /\ files' = files
              /\ IndexKeptBut(l)]_vars

\* A breakpoint has been added at a line of a client path that holds, at
\* another line, a breakpoint that has been hit.
C14_Witness ==
  /\ last.op = "add" /\ last.space = "files" /\ ~last.found
  /\ \E l \in DOMAIN files[last.path] :
       l # last.line /\ files[last.path][l].hit >= 1

\* C15: has tests fast_table_ before it looks a line up in a table: for a
\* line outside the bounds of the index or whose index value is 0 (so for
\* every line never given to add) it returns false having made no lookup
\* and no guest evaluation, and no hitCount has changed.
C15_IndexFirst ==
  [][\A l \in Lines, x \in Contexts :
       (HasFile("a.lua", l, x) /\ IndexValue(fast_table, l) = 0) =>
         /\ ~last'.ret
         /\ last'.lookups = 0
         /\ last'.evals = <<>>
         /\ out' = <<>>
         /\ files' = files /\ memorys' = memorys]_vars

\* has was called for line 1, outside the bounds of an index that holds
\* line 0, and made no lookup.
C15_Witness ==
  /\ last.op = "has" /\ last.line = 1 /\ last.lookups = 0 /\ ~last.ret
  /\ fast_table = <<1>>
  /\ "a.lua" \in DOMAIN files /\ 0 \in DOMAIN files["a.lua"]

\* The hit counter of every pair the map holds before and after the step is
\* as it was or one more, and one more only by a has call.
HitsStep(map, mapAfter) ==
  \A k \in DOMAIN map \cap DOMAIN mapAfter :
    \A l \in DOMAIN map[k] \cap DOMAIN mapAfter[k] :
      \/ mapAfter[k][l].hit = map[k][l].hit
      \/ mapAfter[k][l].hit = map[k][l].hit + 1 /\ last'.op \in {"has", "has_wait"}

\* C16: hitCount is monotonic: over add (inserting or replacing) and has on
\* a pair whose source is not cleared in between, the hitCount of the
\* record never decreases and is never reset, and it changes only by 1,
\* inside has.
C16_HitMonotonic ==
  [][HitsStep(files, files') /\ HitsStep(memorys, memorys')]_vars

\* A logpoint has replaced a breakpoint that had been hit twice, and the
\* record has the two hits.
C16_Witness ==
  /\ last.op = "add" /\ last.found /\ last.space = "files"
  /\ files[last.path][last.line].hit = 2
  /\ files[last.path][last.line].log # <<>>

\* C17: after any sequence of add, clear(sourceKey), clear() and
\* get_function, every bp_function of the cache that is bound points to the
\* table the store holds at its key (client path or source reference), none
\* to a table clear() has destroyed; a breakpoint added after a clear() is
\* therefore seen by has through a bp_function cached before it.
C17_BindingsLive ==
  \A f \in DOMAIN functions :
    functions[f].bp # "null" =>
      /\ ~functions[f].dangling
      /\ IF functions[f].bp = "files"
         THEN functions[f].clientpath \in DOMAIN files
         ELSE functions[f].sourceref \in DOMAIN memorys

\* C18: a breakpoint is a logpoint only when its logMessage is not empty: a
\* definition with an empty logMessage, no condition and no hitCondition
\* is a plain breakpoint, has on its line returns true and nothing is sent
\* to the output.
C18_EmptyMessagePauses ==
  [][\A x \in LogContexts :
       (<<>> \in Given /\ HasFile(LogPath, 0, x)) =>
         /\ last'.ret
         /\ out' = <<>>]_vars

\* What a bp_function is bound to: the keyspace and the key.
Binding(p) == <<p.bp, p.clientpath, p.sourceref>>

\* C19: a bp_function cached for a function address is never resolved again
\* and never evicted: every later get_function of the address returns
\* according to the bp_function made at the first one, without reading the
\* source descriptor, so an address taken over by a function of another
\* source keeps the binding to the first source, and a bp_function cached
\* unbound stays unbound.
C19_CachedForGood ==
  [][/\ \A f \in DOMAIN functions :
          f \in DOMAIN functions' /\ Binding(functions'[f]) = Binding(functions[f])
     /\ \A f \in DOMAIN functions, sOk \in BOOLEAN, d \in Descriptors :
          (last'.op = "get_function" /\ GetFunction(TRUE, f, sOk, d)) =>
            /\ last'.src = <<>>
            /\ last'.ret = (functions[f].bp # "null")
            /\ functions' = functions
            /\ files' = files /\ memorys' = memorys]_vars

\* get_function was called at an address cached for a function of "a.lua"
\* when the function there is of "@b", and returned the bp_function of
\* "a.lua".
C19_Witness ==
  /\ last.op = "get_function" /\ last.found /\ last.ret
  /\ last.desc = <<"@", "b">> /\ last.src = <<>>
  /\ functions[last.f].bp = "files" /\ functions[last.f].clientpath = "a.lua"

====
